---- MODULE Spec2Model ----
(***************************************************************************)
(* A model of lgdo.types.table.Table (src/src/lgdo/types/table.py).        *)
(*                                                                         *)
(* The heap holds column objects (two arrays x and y, a Scalar s that has  *)
(* no __len__) and two Table objects t1 and t2.  A table is a mapping      *)
(* name -> object reference kept in insertion order (a Python dict), a     *)
(* size (an integer or None) and a cursor loc.  Tables hold references, so *)
(* one column object can be held by several tables, and a table can be a   *)
(* column of another table.                                                *)
(***************************************************************************)
EXTENDS Integers, Sequences, FiniteSets, TLC

\* ------------------------------------------------------------------ bounds
\* column lengths and requested sizes range over 0..MaxLen
MaxLen == 2
\* push_row is explored up to this cursor value (one past the largest size)
MaxLoc == MaxLen + 1
\* the default length the constructor's docstring and comment name (unused by
\* the code of __init__)
DefaultSize == 1024

\* ---------------------------------------------------------------- universe
\* Python's None, for size and new_size (an int outside the row counts)
None == -1
Arr == {"x", "y"}
Scal == {"s"}
Tab == {"t1", "t2"}
Names == {"a", "b"}
Objs == Arr \cup Scal \cup Tab
Sizes == 0..MaxLen
\* the cols=None argument of join and view_as
ColsNone == <<"None">>

VARIABLES alen, size, cols, loc, made, streak, last
vars == <<alen, size, cols, loc, made, streak, last>>

\* ------------------------------------------------- the ordered mapping (dict)
Keys(cs) == [i \in DOMAIN cs |-> cs[i][1]]
HasKey(cs, n) == \E i \in DOMAIN cs : cs[i][1] = n
GetItem(cs, n) == cs[CHOOSE i \in DOMAIN cs : cs[i][1] = n][2]
Values(cs) == {cs[i][2] : i \in DOMAIN cs}
\* dict.__setitem__: an existing key keeps its place, a new key goes last
SetItem(cs, n, o) ==
    IF HasKey(cs, n)
    THEN [i \in DOMAIN cs |-> IF cs[i][1] = n THEN <<n, o>> ELSE cs[i]]
    ELSE Append(cs, <<n, o>>)
DelItem(cs, n) == SelectSeq(cs, LAMBDA e : e[1] # n)

\* Struct.__init__(obj_dict): the mapping is filled from obj_dict, in its order
StructInit(col_dict) == col_dict
\* Struct.add_field(name, obj): stores the reference under name
StructAddField(cs, name, obj) == SetItem(cs, name, obj)
\* Struct.remove_field(name, delete): drops the name from the mapping
StructRemoveField(cs, name) == DelItem(cs, name)

\* ordered mappings with distinct keys, at most two entries
NamePairs == {q \in Names \X Names : q[1] # q[2]}
Mappings(O) ==
    {<<>>} \cup {<<<<n, o>>>> : n \in Names, o \in O}
    \cup {<<<<q[1], o1>>, <<q[2], o2>>>> : q \in NamePairs, o1 \in O, o2 \in O}
\* lists of distinct names, at most two
NameLists ==
    {<<>>} \cup {<<n>> : n \in Names} \cup {<<q[1], q[2]>> : q \in NamePairs}

\* ------------------------------------------------------------ the heap view
\* operators below transform a heap record h; err names the exception raised
\* and warns holds the warnings emitted during the call: "resize" (the
\* log.warning of resize), "length" (the UserWarning of add_field) and "loc"
\* (the log.warning of join)
Heap ==
    [alen |-> alen, size |-> size, cols |-> cols, loc |-> loc, err |-> "none",
     warns |-> {}]
Warn(h, w) == [h EXCEPT !.warns = @ \cup {w}]

\* the LGDO type of each object
Kind(o) ==
    IF o = "x" THEN "Array"
    ELSE IF o = "y" THEN "VectorOfVectors"
    ELSE IF o \in Scal THEN "Scalar" ELSE "Table"

\* hasattr(obj, "__len__"): Array, VectorOfVectors and Table have it
HasLenAttr(o) == o \in Arr \cup Tab
\* len(obj) returns: Table.__len__ returns size, and len() raises TypeError
\* when that is None
LenOk(h, o) == o \in Arr \/ (o \in Tab /\ h.size[o] # None)
ObjLen(h, o) == IF o \in Arr THEN h.alen[o] ELSE h.size[o]

\* column.resize(n) of an array-like column: its length becomes n
ColumnResize(h, o, n) == [h EXCEPT !.alen[o] = n]

\* Table.resize, from the i-th field on, with the running new_size ns
\* (a nested table is resized with do_warn left at its default, False)
RECURSIVE ResizeFrom(_, _, _, _, _)
ResizeFrom(h, t, i, ns, do_warn) ==
    IF i > Len(h.cols[t]) THEN [h EXCEPT !.size[t] = ns]
    ELSE LET o == h.cols[t][i][2] IN
         IF ~LenOk(h, o) THEN [h EXCEPT !.err = "TypeError"]
         ELSE IF ns = None THEN ResizeFrom(h, t, i + 1, ObjLen(h, o), do_warn)
         ELSE IF ObjLen(h, o) # ns
              THEN LET hw == IF do_warn THEN Warn(h, "resize") ELSE h
                       h2 == IF o \in Tab THEN ResizeFrom(hw, o, 1, ns, FALSE)
                             ELSE ColumnResize(hw, o, ns)
                   IN IF h2.err # "none" THEN h2
                      ELSE ResizeFrom(h2, t, i + 1, ns, do_warn)
              ELSE ResizeFrom(h, t, i + 1, ns, do_warn)
\* (mutant) an explicit new_size is stored without resizing the columns
TableResizeSizeOnly(h, t, new_size, do_warn) ==
    IF new_size = None THEN ResizeFrom(h, t, 1, new_size, do_warn)
    ELSE [h EXCEPT !.size[t] = new_size]
TableResize(h, t, new_size, do_warn) == ResizeFrom(h, t, 1, new_size, do_warn)

\* (mutant) without a size, the length of the last column is taken
TableInitLastColumn(h, t, sz, col_dict) ==
    LET h0 == [h EXCEPT !.cols[t] = StructInit(col_dict)]
        lst == IF Len(col_dict) > 0 THEN col_dict[Len(col_dict)][2] ELSE "x"
        h1 == IF Len(col_dict) > 0
              THEN IF sz = None /\ LenOk(h0, lst)
                   THEN TableResize(h0, t, ObjLen(h0, lst), TRUE)
                   ELSE TableResize(h0, t, sz, sz = None)
              ELSE [h0 EXCEPT !.size[t] = IF sz # None THEN sz ELSE None]
    IN IF h1.err # "none" THEN h1 ELSE [h1 EXCEPT !.loc[t] = 0]
\* Table.__init__(size, col_dict): the struct is filled, then either resize
\* (some columns) or a plain assignment of size (no columns); loc starts at 0
TableInit(h, t, sz, col_dict) ==
    LET h0 == [h EXCEPT !.cols[t] = StructInit(col_dict)]
        h1 == IF Len(col_dict) > 0
              THEN TableResize(h0, t, sz, sz = None)
              ELSE [h0 EXCEPT !.size[t] = IF sz # None THEN sz ELSE None]
    IN IF h1.err # "none" THEN h1 ELSE [h1 EXCEPT !.loc[t] = 0]

\* (mutant) push_row stops at size
TablePushRowClamp(h, t) ==
    IF h.size[t] # None /\ h.loc[t] >= h.size[t] THEN h
    ELSE [h EXCEPT !.loc[t] = h.loc[t] + 1]
\* Table.push_row, Table.clear, Table.is_full
TablePushRow(h, t) == [h EXCEPT !.loc[t] = h.loc[t] + 1]
TableClear(h, t) == [h EXCEPT !.loc[t] = 0]
\* loc >= size raises TypeError when size is None
IsFullRaises(h, t) == h.size[t] = None
\* (mutant) full only once loc has passed size
IsFullStrict(h, t) == h.loc[t] > h.size[t]
IsFull(h, t) == h.loc[t] >= h.size[t]

\* (mutant) the field is stored before obj is looked at
TableAddFieldStoreFirst(h, t, name, obj, use_obj_size) ==
    LET h1 == [h EXCEPT !.cols[t] = StructAddField(h.cols[t], name, obj)] IN
    IF ~HasLenAttr(obj) \/ ~LenOk(h1, obj) THEN [h1 EXCEPT !.err = "TypeError"]
    ELSE LET h2 == IF h1.size[t] = None
                   THEN [h1 EXCEPT !.size[t] = ObjLen(h1, obj)]
                   ELSE h1
         IN IF h2.size[t] # ObjLen(h2, obj)
            THEN TableResize(Warn(h2, "length"), t,
                             IF use_obj_size THEN ObjLen(h2, obj)
                             ELSE h2.size[t], FALSE)
            ELSE h2
\* (mutant) the field is added and no length is reconciled
TableAddFieldNoReconcile(h, t, name, obj, use_obj_size) ==
    IF ~HasLenAttr(obj) THEN [h EXCEPT !.err = "TypeError"]
    ELSE LET h1 == [h EXCEPT !.cols[t] = StructAddField(h.cols[t], name, obj)] IN
         IF ~LenOk(h1, obj) THEN [h1 EXCEPT !.err = "TypeError"]
         ELSE IF h1.size[t] = None THEN [h1 EXCEPT !.size[t] = ObjLen(h1, obj)]
         ELSE h1
\* (mutant) use_obj_size is ignored: the table always adopts the length of obj
TableAddFieldAdoptAlways(h, t, name, obj, use_obj_size) ==
    IF ~HasLenAttr(obj) THEN [h EXCEPT !.err = "TypeError"]
    ELSE LET h1 == [h EXCEPT !.cols[t] = StructAddField(h.cols[t], name, obj)] IN
         IF ~LenOk(h1, obj) THEN [h1 EXCEPT !.err = "TypeError"]
         ELSE LET h2 == IF h1.size[t] = None
                        THEN [h1 EXCEPT !.size[t] = ObjLen(h1, obj)]
                        ELSE h1
              IN IF h2.size[t] # ObjLen(h2, obj)
                 THEN TableResize(Warn(h2, "length"), t, ObjLen(h2, obj), FALSE)
                 ELSE h2
\* Table.add_field(name, obj, use_obj_size)
TableAddField(h, t, name, obj, use_obj_size) ==
    IF ~HasLenAttr(obj) THEN [h EXCEPT !.err = "TypeError"]
    ELSE LET h1 == [h EXCEPT !.cols[t] = StructAddField(h.cols[t], name, obj)] IN
         IF ~LenOk(h1, obj) THEN [h1 EXCEPT !.err = "TypeError"]
         ELSE LET h2 == IF h1.size[t] = None
                        THEN [h1 EXCEPT !.size[t] = ObjLen(h1, obj)]
                        ELSE h1
              IN IF h2.size[t] # ObjLen(h2, obj)
                 THEN TableResize(Warn(h2, "length"), t,
                                  IF use_obj_size THEN ObjLen(h2, obj)
                                  ELSE h2.size[t], FALSE)
                 ELSE h2
\* (mutant) a copy is stored: another object than the one passed
TableAddColumnCopy(h, t, name, obj, use_obj_size) ==
    TableAddField(h, t, name, IF obj = "x" THEN "y" ELSE "x", use_obj_size)
\* Table.add_column: alias of add_field
TableAddColumn(h, t, name, obj, use_obj_size) ==
    TableAddField(h, t, name, obj, use_obj_size)

\* Table.remove_column(name, delete): KeyError when the name is not a field
TableRemoveColumn(h, t, name) ==
    IF ~HasKey(h.cols[t], name) THEN [h EXCEPT !.err = "KeyError"]
    ELSE [h EXCEPT !.cols[t] = StructRemoveField(h.cols[t], name)]

\* the loop of Table.join over the requested names, from the i-th on
RECURSIVE JoinFrom(_, _, _, _, _)
JoinFrom(h, t, other, names, i) ==
    IF i > Len(names) THEN h
    ELSE IF ~HasKey(h.cols[other], names[i]) THEN [h EXCEPT !.err = "KeyError"]
    ELSE LET h1 == TableAddColumn(h, t, names[i],
                                  GetItem(h.cols[other], names[i]), FALSE)
         IN IF h1.err # "none" THEN h1 ELSE JoinFrom(h1, t, other, names, i + 1)
\* the names join walks: cols, or other_table.keys() when cols is None
JoinNames(h, other, cs) == IF cs = ColsNone THEN Keys(h.cols[other]) ELSE cs
\* (mutant) tables at different cursors are not joined
TableJoinSameLoc(h, t, other, cs, do_warn) ==
    IF h.loc[other] # h.loc[t] THEN [Warn(h, "loc") EXCEPT !.err = "ValueError"]
    ELSE JoinFrom(h, t, other, JoinNames(h, other, cs), 1)
\* (mutant) join hands use_obj_size=True to add_column
RECURSIVE JoinFromAdopt(_, _, _, _, _)
JoinFromAdopt(h, t, other, names, i) ==
    IF i > Len(names) THEN h
    ELSE IF ~HasKey(h.cols[other], names[i]) THEN [h EXCEPT !.err = "KeyError"]
    ELSE LET h1 == TableAddColumn(h, t, names[i],
                                  GetItem(h.cols[other], names[i]), TRUE)
         IN IF h1.err # "none" THEN h1
            ELSE JoinFromAdopt(h1, t, other, names, i + 1)
TableJoinAdopt(h, t, other, cs, do_warn) ==
    JoinFromAdopt(h, t, other, JoinNames(h, other, cs), 1)
\* Table.join(other_table, cols, do_warn)
TableJoin(h, t, other, cs, do_warn) ==
    LET hw == IF h.loc[other] # h.loc[t] /\ do_warn THEN Warn(h, "loc") ELSE h
    IN JoinFrom(hw, t, other, JoinNames(h, other, cs), 1)

\* ---------------------------------------------------------------- view_as
\* the libraries asked for: the two supported ones, "np", and an unknown one
Libraries == {"pd", "ak", "np", "xx"}
\* a pandas.DataFrame: its column labels in order and its number of rows;
\* DataFrame.empty holds when it has no column or no row
EmptyFrame == [labels |-> <<>>, rows |-> 0, err |-> "none"]
FrameEmpty(df) == Len(df.labels) = 0 \/ df.rows = 0
Labels(df) == {df.labels[i] : i \in DOMAIN df.labels}
\* DataFrame.join(other): the labels of other are appended and the rows of df
\* are kept; overlapping labels raise ValueError
FrameJoin(df, other) ==
    IF Labels(df) \cap Labels(other) # {} THEN [df EXCEPT !.err = "ValueError"]
    ELSE [df EXCEPT !.labels = df.labels \o other.labels]

\* the "pd" branch of Table.view_as: the loop over cols, from the i-th on
RECURSIVE ViewPdFrom(_, _, _, _, _, _)
ViewPdFrom(h, t, names, prefix, i, df) ==
    IF i > Len(names) THEN df
    ELSE IF ~HasKey(h.cols[t], names[i]) THEN [df EXCEPT !.err = "KeyError"]
    ELSE LET col == names[i]
             column == GetItem(h.cols[t], col)
             tmp == IF column \in Tab
                    THEN ViewPdFrom(h, column, Keys(h.cols[column]),
                                    prefix \o col \o "_", 1, EmptyFrame)
                    ELSE [labels |-> <<prefix \o col>>, rows |-> h.alen[column],
                          err |-> "none"]
             df2 == IF tmp.err # "none" THEN tmp
                    ELSE IF FrameEmpty(df) THEN tmp
                    ELSE FrameJoin(df, tmp)
         IN IF df2.err # "none" THEN df2
            ELSE ViewPdFrom(h, t, names, prefix, i + 1, df2)

\* (mutant) "np" is served like "ak": a view of the columns is returned
TableViewAsNpRecords(h, t, library, with_units, cs, prefix) ==
    IF library = "pd"
    THEN LET df == ViewPdFrom(h, t, IF cs = ColsNone THEN Keys(h.cols[t]) ELSE cs,
                              prefix, 1, EmptyFrame)
         IN [err |-> df.err, out |-> df]
    ELSE IF library \in {"np", "ak"}
         THEN IF with_units THEN [err |-> "ValueError", out |-> EmptyFrame]
              ELSE [err |-> "none", out |-> [labels |-> Keys(h.cols[t]),
                                             rows |-> h.size[t], err |-> "none"]]
    ELSE [err |-> "TypeError", out |-> EmptyFrame]
\* (mutant) with_units is not looked at for "ak"
TableViewAsAnyUnits(h, t, library, with_units, cs, prefix) ==
    IF library = "pd"
    THEN LET df == ViewPdFrom(h, t, IF cs = ColsNone THEN Keys(h.cols[t]) ELSE cs,
                              prefix, 1, EmptyFrame)
         IN [err |-> df.err, out |-> df]
    ELSE IF library = "np" THEN [err |-> "TypeError", out |-> EmptyFrame]
    ELSE IF library = "ak"
         THEN [err |-> "none", out |-> [labels |-> Keys(h.cols[t]),
                                        rows |-> h.size[t], err |-> "none"]]
    ELSE [err |-> "TypeError", out |-> EmptyFrame]
\* Table.view_as(library, with_units, cols, prefix): the exception raised and
\* the result returned
TableViewAs(h, t, library, with_units, cs, prefix) ==
    IF library = "pd"
    THEN LET df == ViewPdFrom(h, t, IF cs = ColsNone THEN Keys(h.cols[t]) ELSE cs,
                              prefix, 1, EmptyFrame)
         IN [err |-> df.err, out |-> df]
    ELSE IF library = "np" THEN [err |-> "TypeError", out |-> EmptyFrame]
    ELSE IF library = "ak"
         THEN IF with_units THEN [err |-> "ValueError", out |-> EmptyFrame]
              ELSE [err |-> "none", out |-> [labels |-> Keys(h.cols[t]),
                                             rows |-> h.size[t], err |-> "none"]]
    ELSE [err |-> "TypeError", out |-> EmptyFrame]

\* ------------------------------------------------------------------- eval
\* what the engine hands back: numexpr an array of 0 to 3 dimensions; the
\* builtin eval an ak.Array of 1 to 3 dimensions, a number or a string (both
\* scalars to np.isscalar), or something else (a numpy array, a list)
FastResults == {"nd0", "nd1", "nd2", "nd3"}
GeneralResults == {"ak1", "ak2", "ak3", "scalar", "str", "other"}
\* the names compile() finds in an expression, and the names of the
\* caller's parameters (every parameter is taken to hold a ragged array)
Idents == {{"a"}, {"b"}, {"a", "b"}, {"a", "p"}}
Parameters == {{}, {"b", "p"}}
\* the names of the expression that are columns of the table
Referenced(h, t, idents) == {n \in idents : HasKey(h.cols[t], n)}
\* (mutant) a ragged column counts whether the expression names it or not
HasAkAnyColumn(h, t, idents) ==
    \E o \in Values(h.cols[t]) : Kind(o) = "VectorOfVectors"
\* has_ak: a referenced column is a VectorOfVectors
HasAk(h, t, idents) ==
    \E n \in Referenced(h, t, idents) :
        Kind(GetItem(h.cols[t], n)) = "VectorOfVectors"
\* (mutant) on the general path every ak.Array becomes a VectorOfVectors
TableEvalAllRagged(h, t, idents, parameters, res) ==
    IF \E n \in Referenced(h, t, idents) : Kind(GetItem(h.cols[t], n)) = "Table"
    THEN [backend |-> "none", err |-> "TypeError", out |-> "none"]
    ELSE IF ~HasAk(h, t, idents)
    THEN [backend |-> "numexpr",
          err |-> IF res \in {"nd0", "nd1", "nd2"} THEN "none" ELSE "RuntimeError",
          out |-> IF res = "nd0" THEN "Scalar"
                  ELSE IF res = "nd1" THEN "Array"
                  ELSE IF res = "nd2" THEN "ArrayOfEqualSizedArrays" ELSE "none"]
    ELSE [backend |-> "eval",
          err |-> IF res = "other" THEN "RuntimeError" ELSE "none",
          out |-> IF res \in {"ak1", "ak2", "ak3"} THEN "VectorOfVectors"
                  ELSE IF res \in {"scalar", "str"} THEN "Scalar" ELSE "none"]
\* Table.eval(expr, parameters): idents are the names compile() finds in expr,
\* res is what the engine returns; the backend used, the exception raised and
\* the LGDO type returned.  A referenced column that is a Table is asked for
\* view_as("np"), which raises TypeError.  parameters reach the engine only.
TableEval(h, t, idents, parameters, res) ==
    IF \E n \in Referenced(h, t, idents) : Kind(GetItem(h.cols[t], n)) = "Table"
    THEN [backend |-> "none", err |-> "TypeError", out |-> "none"]
    ELSE IF ~HasAk(h, t, idents)
    THEN [backend |-> "numexpr",
          err |-> IF res \in {"nd0", "nd1", "nd2"} THEN "none" ELSE "RuntimeError",
          out |-> IF res = "nd0" THEN "Scalar"
                  ELSE IF res = "nd1" THEN "Array"
                  ELSE IF res = "nd2" THEN "ArrayOfEqualSizedArrays" ELSE "none"]
    ELSE [backend |-> "eval",
          err |-> IF res = "other" THEN "RuntimeError" ELSE "none",
          out |-> IF res = "ak1" THEN "Array"
                  ELSE IF res \in {"ak2", "ak3"} THEN "VectorOfVectors"
                  ELSE IF res \in {"scalar", "str"} THEN "Scalar" ELSE "none"]

\* ------------------------------------------------------------------ actions
\* last is the call log.  A behaviour is a sequence of calls; any call may be
\* taken as its final one, and is then recorded in last: the operation, the
\* table it was called on, the exception it raised ("none" when it
\* returned), the warnings it emitted, its arguments and the heap it was made
\* in (pre).  Calls before the final one leave last at NoLog.
NoLog == [op |-> "none"]
Call(op, t, err, args) ==
    [op |-> op, self |-> t, err |-> err, args |-> args, pre |-> Heap]
Running == last = NoLog
Commit(h, c) ==
    /\ alen' = h.alen
    /\ size' = h.size
    /\ cols' = h.cols
    /\ loc' = h.loc
    /\ last' \in {NoLog, c @@ [warns |-> h.warns]}

\* streak[t] counts the push_row calls made on t since it was constructed or
\* last cleared, as long as only push_row and clear calls were made since
NoStreak == [t \in Tab |-> None]

Init ==
    /\ alen \in [Arr -> Sizes]
    /\ size = [t \in Tab |-> None]
    /\ cols = [t \in Tab |-> <<>>]
    /\ loc = [t \in Tab |-> None]
    /\ made = {}
    /\ streak = NoStreak
    /\ last = NoLog

\* tables are constructed in the order t1, t2, and a table is made a column
\* only of a table constructed after it (no table holds itself)
Older(o, t) == o = "t1" /\ t = "t2"
Columns(t) == Arr \cup Scal \cup {o \in made : Older(o, t)}

\* an exception leaves the object under construction unreachable
Construct(t, sz, col_dict) ==
    /\ Running
    /\ t \notin made
    /\ \A o \in Tab : Older(o, t) => o \in made
    /\ \E h \in {TableInit(Heap, t, sz, col_dict)} :
         LET c == Call("construct", t, h.err, [size |-> sz, col_dict |-> col_dict])
         IN IF h.err = "none"
            THEN /\ Commit(h, c) /\ made' = made \cup {t}
                 /\ streak' = [o \in Tab |-> IF o = t THEN 0 ELSE None]
            ELSE /\ Commit([h EXCEPT !.cols[t] = <<>>, !.size[t] = None], c)
                 /\ made' = made
                 /\ streak' = NoStreak

Resize(t, new_size, do_warn) ==
    /\ Running
    /\ t \in made
    /\ \E h \in {TableResize(Heap, t, new_size, do_warn)} :
         Commit(h, Call("resize", t, h.err,
                        [new_size |-> new_size, do_warn |-> do_warn]))
    /\ made' = made
    /\ streak' = NoStreak

PushRow(t) ==
    /\ Running
    /\ t \in made
    /\ loc[t] < MaxLoc
    /\ Commit(TablePushRow(Heap, t), Call("push_row", t, "none", <<>>))
    /\ made' = made
    /\ streak' = [streak EXCEPT ![t] = IF @ = None THEN None ELSE @ + 1]

Clear(t) ==
    /\ Running
    /\ t \in made
    /\ Commit(TableClear(Heap, t), Call("clear", t, "none", <<>>))
    /\ made' = made
    /\ streak' = [streak EXCEPT ![t] = 0]

AddField(t, name, obj, use_obj_size) ==
    /\ Running
    /\ t \in made
    /\ obj \in Columns(t)
    /\ \E h \in {TableAddField(Heap, t, name, obj, use_obj_size)} :
         Commit(h, Call("add_field", t, h.err,
                        [name |-> name, obj |-> obj, use_obj_size |-> use_obj_size]))
    /\ made' = made
    /\ streak' = NoStreak

AddColumn(t, name, obj, use_obj_size) ==
    /\ Running
    /\ t \in made
    /\ obj \in Columns(t)
    /\ \E h \in {TableAddColumn(Heap, t, name, obj, use_obj_size)} :
         Commit(h, Call("add_column", t, h.err,
                        [name |-> name, obj |-> obj, use_obj_size |-> use_obj_size]))
    /\ made' = made
    /\ streak' = NoStreak

RemoveColumn(t, name) ==
    /\ Running
    /\ t \in made
    /\ \E h \in {TableRemoveColumn(Heap, t, name)} :
         Commit(h, Call("remove_column", t, h.err, [name |-> name]))
    /\ made' = made
    /\ streak' = NoStreak

Join(t, other, cs, do_warn) ==
    /\ Running
    /\ t \in made
    /\ other \in made \ {t}
    /\ Values(cols[other]) \subseteq Columns(t)
    /\ \E h \in {TableJoin(Heap, t, other, cs, do_warn)} :
         Commit(h, Call("join", t, h.err,
                        [other |-> other, cols |-> cs, do_warn |-> do_warn]))
    /\ made' = made
    /\ streak' = NoStreak

ViewAs(t, library, with_units, cs, prefix) ==
    /\ Running
    /\ t \in made
    /\ \E r \in {TableViewAs(Heap, t, library, with_units, cs, prefix)} :
         Commit(Heap, Call("view_as", t, r.err,
                           [library |-> library, with_units |-> with_units,
                            cols |-> cs, prefix |-> prefix, out |-> r.out]))
    /\ made' = made
    /\ streak' = NoStreak

Eval(t, idents, parameters, res) ==
    /\ Running
    /\ t \in made
    /\ res \in (IF HasAk(Heap, t, idents) THEN GeneralResults ELSE FastResults)
    /\ \E r \in {TableEval(Heap, t, idents, parameters, res)} :
         Commit(Heap, Call("eval", t, r.err,
                           [idents |-> idents, parameters |-> parameters,
                            res |-> res, backend |-> r.backend, out |-> r.out]))
    /\ made' = made
    /\ streak' = NoStreak

\* the tables a call can be made on, and the ones not yet constructed
Live == IF Running THEN made ELSE {}
Fresh == IF Running THEN Tab \ made ELSE {}

\* every structural operation on the full universe; add_column (the alias
\* join uses), push_row and clear are taken as final calls here, and the
\* cursor is explored in depth by NextCursor
Next ==
    \/ \E t \in Fresh : \E sz \in Sizes \cup {None}, cd \in Mappings(Columns(t)) :
          Construct(t, sz, cd)
    \/ \E t \in Live, n \in Sizes \cup {None} : Resize(t, n, FALSE)
    \/ \E t \in Live, n \in Names, o \in Objs, u \in BOOLEAN : AddField(t, n, o, u)
    \/ \E t \in Live, n \in Names, o \in Objs : AddColumn(t, n, o, FALSE) /\ ~Running'
    \/ \E t \in Live, n \in Names : RemoveColumn(t, n)
    \/ \E t \in Live, o \in Live, cs \in NameLists \cup {ColsNone}, w \in BOOLEAN :
          Join(t, o, cs, w)
    \/ \E t \in Live : PushRow(t) /\ ~Running'
    \/ \E t \in Live : Clear(t) /\ ~Running'

Spec == Init /\ [][Next]_vars

\* every operation, with the cursor of t1 explored up to MaxLoc, on tables of
\* at most one column named "a" holding an array
NextCursor ==
    \/ \E t \in Fresh : \E sz \in Sizes \cup {None}, cd \in {<<>>} \cup {<<<<"a", o>>>> : o \in Arr} :
          Construct(t, sz, cd)
    \/ \E t \in Live, n \in Sizes \cup {None}, w \in BOOLEAN : Resize(t, n, w)
    \/ \E t \in Live, o \in Arr, u \in BOOLEAN : AddField(t, "a", o, u)
    \/ \E t \in Live, o \in Arr, u \in BOOLEAN : AddColumn(t, "a", o, u) /\ ~Running'
    \/ \E t \in Live : RemoveColumn(t, "a")
    \/ \E t \in Live, o \in Live, w \in BOOLEAN : Join(t, o, ColsNone, w)
    \/ \E t \in Live \cap {"t1"} : PushRow(t)
    \/ \E t \in Live : Clear(t)
    \/ \E t \in Live, l \in Libraries : ViewAs(t, l, FALSE, ColsNone, "") /\ ~Running'
    \/ \E t \in Live, res \in FastResults \cup GeneralResults :
          Eval(t, {"a"}, {}, res) /\ ~Running'

SpecCursor == Init /\ [][NextCursor]_vars

\* tables built by the constructor and add_field, then viewed: view_as is the
\* final call
NextView ==
    \/ \E t \in Fresh : \E sz \in Sizes \cup {None}, cd \in Mappings(Columns(t)) :
          Construct(t, sz, cd) /\ Running'
    \/ \E t \in Live, n \in Names, o \in Objs : AddField(t, n, o, FALSE) /\ Running'
    \/ \E t \in Live, l \in Libraries, u \in BOOLEAN, cs \in NameLists \cup {ColsNone},
          p \in {"", "p_"} : ViewAs(t, l, u, cs, p) /\ ~Running'

SpecView == Init /\ [][NextView]_vars

\* tables built by the constructor and add_field, nested ones included, with
\* the cursor of t1 at 0 or 1, then joined: join is the final call
NextJoin ==
    \/ \E t \in Fresh : \E sz \in Sizes \cup {None}, cd \in Mappings(Columns(t)) :
          Construct(t, sz, cd) /\ Running'
    \/ \E t \in Live, n \in Names, o \in Objs, u \in BOOLEAN :
          AddField(t, n, o, u) /\ Running'
    \/ \E t \in Live \cap {"t1"} : loc[t] = 0 /\ PushRow(t) /\ Running'
    \/ \E t \in Live, o \in Live, cs \in NameLists \cup {ColsNone}, w \in BOOLEAN :
          Join(t, o, cs, w) /\ ~Running'

SpecJoin == Init /\ [][NextJoin]_vars

\* tables built by the constructor, nested ones included, then evaluated:
\* eval is the final call
NextEval ==
    \/ \E t \in Fresh : \E sz \in Sizes \cup {None}, cd \in Mappings(Columns(t)) :
          Construct(t, sz, cd) /\ Running'
    \/ \E t \in Live, ids \in Idents, ps \in Parameters,
          res \in FastResults \cup GeneralResults :
          Eval(t, ids, ps, res) /\ ~Running'

SpecEval == Init /\ [][NextEval]_vars

\* ------------------------------------------------------------------- claims
Did(op) == last.op = op
Returned == last.err = "none"
\* every column of table t has a length, and it is the size of t
ColsAgree(h, t) ==
    \A o \in Values(h.cols[t]) : LenOk(h, o) /\ ObjLen(h, o) = h.size[t]

\* C1: immediately after a construction that returns, every column of the new
\* table has length equal to the table's size (size given or not, columns of
\* equal or differing lengths).
C1_ConstructedColumnsMatchSize ==
    (Did("construct") /\ Returned) => ColsAgree(Heap, last.self)
\* a table built from two columns whose lengths differed
C1_Witness ==
    /\ Did("construct") /\ Returned
    /\ Len(cols[last.self]) = 2
    /\ LET o1 == cols[last.self][1][2]
           o2 == cols[last.self][2][2]
       IN /\ o1 \in Arr /\ o2 \in Arr
          /\ last.pre.alen[o1] # last.pre.alen[o2]
          /\ alen[o1] = alen[o2]

\* C2 (as claimed): in every reachable state, every table and every one of
\* its columns satisfy len(c) == size, tables sharing column objects included.
C2_EveryTableAgrees == \A t \in made : ColsAgree(Heap, t)
\* C2 (amended): a construct or resize call that returns leaves the table it
\* was called on with len(c) == size for all its columns; an add_field,
\* add_column or join call that returns keeps this for the table it was
\* called on when it held before the call.  Other tables holding the same
\* column objects are not kept consistent.
C2_CalledTableAgrees ==
    (last.op \in {"construct", "resize", "add_field", "add_column", "join"}
       /\ Returned
       /\ (last.op \in {"construct", "resize"} \/ ColsAgree(last.pre, last.self)))
    => ColsAgree(Heap, last.self)
\* a join that reconciled a length mismatch: the joining table agrees, the
\* other table, which agreed before, no longer does
C2_Witness ==
    /\ Did("join") /\ Returned
    /\ ColsAgree(last.pre, last.self) /\ ColsAgree(last.pre, last.args.other)
    /\ ColsAgree(Heap, last.self) /\ ~ColsAgree(Heap, last.args.other)

\* C3: a table constructed without columns has the size given, and the
\* default size 1024 when no size is given either.
C3_DefaultSize ==
    (Did("construct") /\ Returned /\ Len(last.args.col_dict) = 0)
    => size[last.self] = (IF last.args.size = None THEN DefaultSize
                          ELSE last.args.size)

\* C4: resize() without argument, on a table whose columns all agree with its
\* size (a table without columns and with a set size included), leaves size
\* and every column length unchanged.
C4_ResizeIdempotent ==
    (Did("resize") /\ last.args.new_size = None /\ ColsAgree(last.pre, last.self))
    => /\ Returned
       /\ size = last.pre.size
       /\ alen = last.pre.alen

\* the length the incoming column of the logged add_field call had, and the
\* size the table had, when the call was made
Incoming == last.args.obj
IncomingLen == ObjLen(last.pre, Incoming)
SizeBefore == last.pre.size[last.self]
Mismatch ==
    /\ last.op \in {"add_field", "add_column"}
    /\ SizeBefore # None
    /\ LenOk(last.pre, Incoming)
    /\ IncomingLen # SizeBefore

\* C5: an add_field call that returns, on a table of set size S with a column
\* of length L # S: without use_obj_size the incoming column has length S
\* afterwards, size is still S and the other columns have length S; with
\* use_obj_size size is L, the incoming column still has length L and every
\* other column has length L.
C5_AddFieldReconciles ==
    (Mismatch /\ Returned) =>
       LET n == IF last.args.use_obj_size THEN IncomingLen ELSE SizeBefore
       IN /\ size[last.self] = n
          /\ ObjLen(Heap, Incoming) = n
          /\ \A o \in Values(cols[last.self]) : ObjLen(Heap, o) = n
\* use_obj_size made a table holding another column adopt the new length
C5_Witness ==
    /\ Mismatch /\ Returned /\ Did("add_field")
    /\ last.args.use_obj_size
    /\ Len(cols[last.self]) = 2
    /\ size[last.self] = IncomingLen
    /\ \E o \in Values(cols[last.self]) \cap Arr : last.pre.alen[o] # alen[o]

\* the names the logged join call walked
Joined == JoinNames(last.pre, last.args.other, last.args.cols)

\* C6: after a join that returns, every joined name refers in both tables to
\* the identical column object (no copy), also when the join reconciled a
\* length mismatch; a change of that object is therefore seen through both.
C6_JoinAliases ==
    (Did("join") /\ Returned) =>
       \A i \in DOMAIN Joined :
          /\ HasKey(cols[last.self], Joined[i])
          /\ GetItem(cols[last.self], Joined[i])
               = GetItem(cols[last.args.other], Joined[i])
\* two columns joined into a table of another size: the shared objects were
\* resized, and both tables see the new length
C6_Witness ==
    /\ Did("join") /\ Returned
    /\ Len(Joined) = 2
    /\ SizeBefore # None
    /\ \A i \in DOMAIN Joined :
          LET o == GetItem(cols[last.args.other], Joined[i])
          IN /\ o \in Arr
             /\ last.pre.alen[o] # SizeBefore
             /\ alen[o] = SizeBefore
             /\ GetItem(cols[last.self], Joined[i]) = o

\* the calls C7 lists as never changing the size of the table they are made on
SizeKeeping ==
    \/ last.op \in {"push_row", "clear", "remove_column", "join"}
    \/ last.op \in {"add_field", "add_column"} /\ ~last.args.use_obj_size
C8_FullAfterSizePushes ==
    \A t \in made :
       (streak[t] # None /\ size[t] # None /\ size[t] > 0) =>
          /\ loc[t] = streak[t]
          /\ IsFull(Heap, t) <=> streak[t] >= size[t]
          /\ Did("clear") /\ last.self = t => loc[t] = 0 /\ ~IsFull(Heap, t)
\* the push that fills a table of size MaxLen
C8_Witness ==
    /\ Did("push_row")
    /\ size[last.self] = MaxLen
    /\ streak[last.self] = MaxLen
    /\ IsFull(Heap, last.self)
    /\ ~IsFull(last.pre, last.self)

\* C9: loc is 0 after construction, push_row adds exactly 1 to it even past
\* size, clear sets it to 0, and no other call changes the loc of any table
\* (resize, add_field, add_column, remove_column, join, eval, view_as).
C9_OnlyPushAndClearMoveLoc ==
    /\ (Did("construct") /\ Returned) => loc[last.self] = 0
    /\ Did("push_row") => loc[last.self] = last.pre.loc[last.self] + 1
    /\ Did("clear") => loc[last.self] = 0
    /\ ~Running =>
          \A t \in Tab :
             (t # last.self \/ last.op \notin {"construct", "push_row", "clear"})
                => loc[t] = last.pre.loc[t]
\* a push on a table that was already full
C9_Witness ==
    /\ Did("push_row")
    /\ SizeBefore # None
    /\ last.pre.loc[last.self] >= SizeBefore
    /\ loc[last.self] > size[last.self]

\* the view_as calls C10 is about
ViewNp == Did("view_as") /\ last.args.library = "np"
ViewUnknown == Did("view_as") /\ last.args.library \notin {"pd", "ak", "np"}
ViewAkUnits == Did("view_as") /\ last.args.library = "ak" /\ last.args.with_units
\* C10 (as claimed): view_as to "np", to an unknown library, and to "ak" with
\* with_units each raise a TypeError.
C10_ViewErrorsAreTypeErrors ==
    (ViewNp \/ ViewUnknown \/ ViewAkUnits) => last.err = "TypeError"
\* C10 (amended): view_as to "np" and to an unknown library raise TypeError;
\* view_as to "ak" with with_units raises ValueError.
C10_ViewErrors ==
    /\ (ViewNp \/ ViewUnknown) => last.err = "TypeError"
    /\ ViewAkUnits => last.err = "ValueError"
\* "ak" asked with units on a table that holds a column
C10_Witness ==
    /\ ViewAkUnits
    /\ Len(cols[last.self]) > 0
    /\ last.err = "ValueError"

\* the table state a call can change: lengths, sizes, mappings and cursors
Unchanged ==
    /\ alen = last.pre.alen
    /\ size = last.pre.size
    /\ cols = last.pre.cols
    /\ loc = last.pre.loc

\* C11: view_as("np") raises whatever the table state, with_units, cols and
\* prefix are, and view_as("ak", with_units=True) raises whatever the table
\* state is; nothing is returned and columns, size and loc are unchanged.
C11_ViewAlwaysRaises ==
    (ViewNp \/ ViewAkUnits) =>
       /\ last.err # "none"
       /\ last.args.out = EmptyFrame
       /\ Unchanged
\* "np" asked with units, a column list and a prefix, of a table that holds
\* rows
C11_Witness ==
    /\ ViewNp
    /\ last.args.with_units
    /\ last.args.cols # ColsNone /\ Len(last.args.cols) = 2
    /\ last.args.prefix = "p_"
    /\ Len(cols[last.self]) = 2
    /\ size[last.self] = MaxLen
    /\ last.err = "TypeError"

\* C12: add_field or add_column of an object without __len__ raises TypeError
\* and leaves the table as it was: the name is not added (a name already
\* there keeps its object), and size and loc are unchanged.  No constructed
\* table ever holds such an object, so join never hands one to add_column.
C12_NoLengthRejected ==
    /\ (last.op \in {"add_field", "add_column"} /\ ~HasLenAttr(Incoming)) =>
          /\ last.err = "TypeError"
          /\ Unchanged
    /\ \A t \in made : \A o \in Values(cols[t]) : HasLenAttr(o)
\* a Scalar offered under a new name to a table that holds a column
C12_Witness ==
    /\ Did("add_field")
    /\ Incoming \in Scal
    /\ Len(last.pre.cols[last.self]) = 1
    /\ ~HasKey(last.pre.cols[last.self], last.args.name)
    /\ ~HasKey(cols[last.self], last.args.name)
    /\ last.err = "TypeError"

\* C13: in every reachable state a table whose size is unset holds no column.
C13_UnsetSizeOnlyWhenEmpty ==
    \A t \in made : size[t] = None => Len(cols[t]) = 0

\* the first column of the mapping handed to the logged constructor call
FirstColumn == last.args.col_dict[1][2]
\* C14: a construction with a non-empty mapping that returns: without a size,
\* size is the length the first column of the mapping had, that column keeps
\* its length and every other column has that length afterwards; with a
\* size, size is the value given and every column has that length.
C14_ConstructSizes ==
    (Did("construct") /\ Returned /\ Len(last.args.col_dict) > 0) =>
       LET n == IF last.args.size = None THEN ObjLen(last.pre, FirstColumn)
                ELSE last.args.size
       IN /\ size[last.self] = n
          /\ \A o \in Values(cols[last.self]) : ObjLen(Heap, o) = n
          /\ last.args.size = None =>
                ObjLen(Heap, FirstColumn) = ObjLen(last.pre, FirstColumn)
\* no size given and a second column longer than the first: it was clipped
C14_Witness ==
    /\ Did("construct") /\ Returned
    /\ last.args.size = None
    /\ Len(last.args.col_dict) = 2
    /\ LET o2 == last.args.col_dict[2][2]
       IN /\ o2 \in Arr /\ FirstColumn \in Arr
          /\ last.pre.alen[o2] > last.pre.alen[FirstColumn]
          /\ alen[o2] = alen[FirstColumn]
          /\ size[last.self] = last.pre.alen[FirstColumn]
          /\ "resize" \in last.warns

\* the table the logged join call took its columns from
Other == last.args.other
\* other keeps its column names in their order, its size and its loc
OtherKept ==
    /\ Keys(cols[Other]) = Keys(last.pre.cols[Other])
    /\ size[Other] = last.pre.size[Other]
    /\ loc[Other] = last.pre.loc[Other]
\* C15 (as claimed): whatever the two loc values are, a join that returns has
\* aliased every requested column into self; the loc diagnostic is emitted
\* exactly when other.loc != self.loc and do_warn is true; and other's column
\* names, their order, other.size and other.loc are as before the join.
C15_LocNeverBlocksJoin ==
    Did("join") =>
       /\ Returned =>
             \A i \in DOMAIN Joined :
                GetItem(cols[last.self], Joined[i]) = GetItem(cols[Other], Joined[i])
       /\ "loc" \in last.warns <=>
             (last.pre.loc[Other] # last.pre.loc[last.self] /\ last.args.do_warn)
       /\ OtherKept

\* a join raises only for a requested name other does not hold (KeyError) or
\* for a table of unset size among the columns at hand (TypeError)
JoinErrorExplained ==
    /\ last.err \in {"none", "KeyError", "TypeError"}
    /\ last.err = "KeyError" =>
          \E i \in DOMAIN Joined : ~HasKey(last.pre.cols[Other], Joined[i])
    /\ last.err = "TypeError" =>
          \E o \in Values(last.pre.cols[last.self]) \cup Values(last.pre.cols[Other]) :
             ~LenOk(last.pre, o)
\* C15 (amended): whatever the two loc values are, a join raises only for
\* reasons other than loc, and when it returns it has aliased every requested
\* column into self; the loc diagnostic is emitted exactly when
\* other.loc != self.loc and do_warn is true; other's column names, their
\* order and other.loc are as before the join, and so is other.size unless
\* other is itself a column of self.
C15_LocOnlyAdvisory ==
    Did("join") =>
       /\ JoinErrorExplained
       /\ Returned =>
             \A i \in DOMAIN Joined :
                GetItem(cols[last.self], Joined[i]) = GetItem(cols[Other], Joined[i])
       /\ "loc" \in last.warns <=>
             (last.pre.loc[Other] # last.pre.loc[last.self] /\ last.args.do_warn)
       /\ Keys(cols[Other]) = Keys(last.pre.cols[Other])
       /\ loc[Other] = last.pre.loc[Other]
       /\ Other \notin Values(last.pre.cols[last.self]) =>
             size[Other] = last.pre.size[Other]
\* two columns joined across differing cursors, with the diagnostic
C15_Witness ==
    /\ Did("join") /\ Returned
    /\ last.pre.loc[Other] # last.pre.loc[last.self]
    /\ last.args.do_warn /\ "loc" \in last.warns
    /\ Len(Joined) = 2
    /\ \A i \in DOMAIN Joined :
          /\ ~HasKey(last.pre.cols[last.self], Joined[i])
          /\ GetItem(cols[last.self], Joined[i]) = GetItem(cols[Other], Joined[i])
    /\ OtherKept

\* C16: a join called with do_warn=False emits no warning: neither the loc
\* diagnostic nor the length warning of add_column, also when the columns of
\* other have a length different from self.size.
C16_QuietJoin ==
    (Did("join") /\ ~last.args.do_warn) => last.warns = {}

\* the labels a tabular view of the names of table t is to have: prefix+name
\* for an array column, and for a nested table its own labels under the
\* prefix extended by name and "_"
RECURSIVE WantedLabels(_, _, _, _, _)
WantedLabels(h, t, names, prefix, i) ==
    IF i > Len(names) THEN <<>>
    ELSE LET o == GetItem(h.cols[t], names[i])
         IN (IF o \in Tab
             THEN WantedLabels(h, o, Keys(h.cols[o]), prefix \o names[i] \o "_", 1)
             ELSE <<prefix \o names[i]>>)
            \o WantedLabels(h, t, names, prefix, i + 1)
ViewPd == Did("view_as") /\ last.args.library = "pd"
Requested ==
    IF last.args.cols = ColsNone THEN Keys(cols[last.self]) ELSE last.args.cols
\* C17: a view_as("pd") call that returns, of a table of any row count (zero
\* included) and for any requested column list, returns a frame whose labels
\* are exactly the wanted ones in the requested order: no requested column
\* is dropped or overwritten by a later one.
C17_ViewHoldsEveryColumn ==
    (ViewPd /\ Returned) =>
       last.args.out.labels
         = WantedLabels(Heap, last.self, Requested, last.args.prefix, 1)

\* the expression of the logged eval call names a column of the table that
\* is a ragged array-of-arrays, respectively a nested table
NamesKind(k) ==
    \E n \in last.args.idents :
       /\ HasKey(cols[last.self], n)
       /\ Kind(GetItem(cols[last.self], n)) = k
RaggedNamed == NamesKind("VectorOfVectors")
TableNamed == NamesKind("Table")
\* C18 (as claimed): eval uses the general engine if and only if an
\* identifier of the expression names a ragged column of the table, whatever
\* the other columns and the parameters are, and leaves columns, size and
\* loc unchanged.
C18_GeneralIffRaggedNamed ==
    Did("eval") =>
       /\ last.args.backend = "eval" <=> RaggedNamed
       /\ Unchanged
\* C18 (amended): when the expression names a nested-table column eval
\* raises TypeError and uses no engine; otherwise it uses the general engine
\* if an identifier names a ragged column of the table and the fast engine
\* if none does, whatever the other columns and the parameters are; in every
\* case columns, size and loc are unchanged.
C18_EngineChoice ==
    Did("eval") =>
       /\ IF TableNamed
          THEN last.args.backend = "none" /\ last.err = "TypeError"
          ELSE last.args.backend = (IF RaggedNamed THEN "eval" ELSE "numexpr")
       /\ Unchanged
\* the fast engine chosen although the table holds a ragged column the
\* expression does not name and a parameter is ragged
C18_Witness ==
    /\ Did("eval")
    /\ last.args.idents = {"a"}
    /\ HasKey(cols[last.self], "a") /\ GetItem(cols[last.self], "a") = "x"
    /\ HasKey(cols[last.self], "b") /\ GetItem(cols[last.self], "b") = "y"
    /\ last.args.parameters # {}
    /\ last.args.backend = "numexpr"

\* the outcome C19 gives for each engine and result: the LGDO type returned,
\* "none" standing for an error
FastOutcome(res) ==
    IF res = "nd0" THEN "Scalar"
    ELSE IF res = "nd1" THEN "Array"
    ELSE IF res = "nd2" THEN "ArrayOfEqualSizedArrays" ELSE "none"
GeneralOutcome(res) ==
    IF res = "ak1" THEN "Array"
    ELSE IF res \in {"ak2", "ak3"} THEN "VectorOfVectors"
    ELSE IF res = "scalar" THEN "Scalar" ELSE "none"
Outcome == IF Returned THEN last.args.out ELSE "none"
\* C19 (as claimed): every eval call takes one of the two paths; on the fast
\* path 0, 1 and 2 dimensions give a Scalar, an Array and an
\* ArrayOfEqualSizedArrays and anything else an error; on the general path
\* an ak.Array gives an Array when 1-dimensional and a VectorOfVectors
\* otherwise, a plain number a Scalar, and any other result an error.
C19_ResultVariant ==
    Did("eval") =>
       /\ last.args.backend \in {"numexpr", "eval"}
       /\ last.args.backend = "numexpr" => Outcome = FastOutcome(last.args.res)
       /\ last.args.backend = "eval" => Outcome = GeneralOutcome(last.args.res)
\* C19 (amended): an eval call whose expression names a nested-table column
\* raises TypeError on neither path; every other call takes one of the two
\* paths, with the outcomes claimed, except that on the general path every
\* result np.isscalar accepts, a string included, gives a Scalar.
C19_ResultVariantIsScalar ==
    Did("eval") =>
       /\ last.args.backend = "none" <=> TableNamed
       /\ last.args.backend = "none" => last.err = "TypeError"
       /\ last.args.backend = "numexpr" =>
             /\ Outcome = FastOutcome(last.args.res)
             /\ last.err \in {"none", "RuntimeError"}
       /\ last.args.backend = "eval" =>
             /\ Outcome = (IF last.args.res = "str" THEN "Scalar"
                           ELSE GeneralOutcome(last.args.res))
             /\ last.err \in {"none", "RuntimeError"}
\* a 1-dimensional ak.Array on the general path gave an Array
C19_Witness ==
    /\ Did("eval") /\ Returned
    /\ last.args.backend = "eval"
    /\ last.args.res = "ak1"
    /\ last.args.out = "Array"

====
